---- MODULE Spec2Model ----
(***************************************************************************)
(* Model of tensorflow_ranking/python/data.py:                             *)
(*   - parse_from_sequence_example: spec resolution, decoding, padding     *)
(*     value reset, truncate/pad normalisation of example features;        *)
(*   - libsvm_generator / _libsvm_generate / _libsvm_parse_line.           *)
(* Python values that can be a default_value or a tensor element are       *)
(* tagged records, so that ints, strings, lists and None stay distinct.    *)
(***************************************************************************)
EXTENDS Integers, Sequences, FiniteSets, TLC

\* ---------------------------------------------------------------- bounds
BatchSize == 2
MaxFrames == 2
MaxListSize == 2
MaxLines == 3
MaxIterations == 2

\* ------------------------------------------------------- program constants
\* _PADDING_LABEL
PADDING_LABEL == -1

\* _LABEL_FEATURE
LABEL_FEATURE == "label"

\* ------------------------------------------------------- python values
NoneV == [kind |-> "none", n |-> 0, s |-> "", items |-> <<>>]
Num(x) == [kind |-> "num", n |-> x, s |-> "", items |-> <<>>]
Text(x) == [kind |-> "text", n |-> 0, s |-> x, items |-> <<>>]
List(xs) == [kind |-> "list", n |-> 0, s |-> "", items |-> xs]

\* Python truthiness, as used by `default_value or ""` and `if scalar and`.
Truthy(v) ==
  CASE v.kind = "none" -> FALSE
    [] v.kind = "num" -> v.n # 0
    [] v.kind = "text" -> v.s # ""
    [] OTHER -> Len(v.items) > 0

\* `scalar != 0`
NotEqualZero(v) == ~(v.kind = "num" /\ v.n = 0)

\* isinstance(scalar, six.text_type)
IsText(v) == v.kind = "text"

\* The default_value choices of a FixedLenFeature.
Defaults ==
  { NoneV, Num(0), Num(-1), Text("x"),
    List(<<Num(7)>>), List(<<Text("a"), Text("b")>>) }

DTypes == {"float32", "string"}

\* Feature specs: tf.io.FixedLenFeature(shape=[width], dtype, default_value)
\* and tf.io.VarLenFeature(dtype).
FixedLenFeature(w, d, dv) ==
  [fixed |-> TRUE, width |-> w, dtype |-> d, default_value |-> dv]
VarLenFeature(d) ==
  [fixed |-> FALSE, width |-> 1, dtype |-> d, default_value |-> NoneV]

FeatureSpecs ==
  { FixedLenFeature(w, "float32", dv) : w \in {1, 2}, dv \in Defaults }
    \cup { FixedLenFeature(1, "string", dv) : dv \in Defaults }
    \cup { VarLenFeature("float32") }

\* The specs used for key "a" and for key "b" of a two-key dict.
FirstSpecs ==
  { FixedLenFeature(1, "float32", NoneV),
    FixedLenFeature(1, "float32", List(<<Num(7)>>)),
    FixedLenFeature(1, "string", Text("x")) }

SecondSpecs ==
  { FixedLenFeature(1, "float32", Num(-1)), VarLenFeature("float32") }

\* example_feature_spec: a dict with key "a", or with keys "a" and "b".
ExampleFeatureSpecs ==
  { [k \in {"a"} |-> s] : s \in FeatureSpecs }
    \cup { [k \in {"a", "b"} |-> IF k = "a" THEN s ELSE t] :
             s \in FirstSpecs, t \in SecondSpecs }

\* list_size argument: None, or an integer (0 stands for the non-positive ones).
ListSizes ==
  { [isNone |-> TRUE, n |-> 0] }
    \cup { [isNone |-> FALSE, n |-> x] : x \in 0..MaxListSize }

\* ------------------------------------------------- _get_scalar_default_value
Raise == [ok |-> FALSE, val |-> NoneV]
Return(v) == [ok |-> TRUE, val |-> v]

get_scalar_default_value(dtype, default_value) ==
  IF dtype = "string"
    THEN Return(IF Truthy(default_value) THEN default_value ELSE Text(""))
  ELSE IF default_value.kind = "none"
    THEN Return(Num(0))
  ELSE IF default_value.kind = "num"
    THEN Return(default_value)
  ELSE IF default_value.kind = "list" /\ Len(default_value.items) = 1
    THEN Return(default_value.items[1])
  ELSE Raise

\* IsNonTrivial without the isinstance test.
IsNonTrivial_anyType(scalar) == Truthy(scalar) /\ NotEqualZero(scalar)

\* `if scalar and not isinstance(scalar, six.text_type) and scalar != 0`
IsNonTrivial(scalar) ==
  Truthy(scalar) /\ ~IsText(scalar) /\ NotEqualZero(scalar)

\* ------------------------------------------------------------- tensors
\* A dense Tensor is a shape and a value per index <<row, frame, slot>>;
\* a SparseTensor is a dense_shape and a set of (index, value) entries.
DenseIdx(shape) ==
  (0..(shape[1] - 1)) \X (0..(shape[2] - 1)) \X (0..(shape[3] - 1))

DenseTensor(shape, val) ==
  [sparse |-> FALSE, shape |-> shape, val |-> val, entries |-> {}]

SparseTensor(shape, es) ==
  [sparse |-> TRUE, shape |-> shape,
   val |-> [i \in {} |-> NoneV], entries |-> es]

Max(S) == CHOOSE x \in S : \A y \in S : y <= x

Min2(a, b) == IF a < b THEN a ELSE b

\* The decoder's implicit fill for a missing frame: 0 or "".
ImplicitDefault(dtype) == IF dtype = "string" THEN Text("") ELSE Num(0)

StringData == <<"u", "v", "w", "y">>

\* The value stored in the feature_list of row b at frame p, slot j.
FrameValue(dtype, b, p, j) ==
  IF dtype = "string"
    THEN Text(StringData[((b + 2 * p + j) % 4) + 1])
    ELSE Num(100 * (b + 1) + 10 * (p + 1) + j)

\* Number of values a VarLenFeature frame holds.
FrameValueCount(b, p) == 1 + ((b + p) % 2)

\* tf.io.parse_sequence_example output for one key, given the rows' lengths.
ParsedTensor(spec, size) ==
  LET frames == Max({size[b] : b \in DOMAIN size})
  IN  IF spec.fixed
        THEN DenseTensor(
               <<BatchSize, frames, spec.width>>,
               [i \in DenseIdx(<<BatchSize, frames, spec.width>>) |->
                  IF i[2] < size[i[1]]
                    THEN FrameValue(spec.dtype, i[1], i[2], i[3])
                    ELSE ImplicitDefault(spec.dtype)])
        ELSE LET es == { [idx |-> <<b, p, j>>,
                          v |-> FrameValue(spec.dtype, b, p, j)] :
                           <<b, p, j>> \in
                             { i \in (0..(BatchSize - 1)) \X (0..(frames - 1)) \X (0..1) :
                                 i[2] < size[i[1]] /\ i[3] < FrameValueCount(i[1], i[2]) } }
                 width == IF es = {} THEN 0 ELSE Max({e.idx[3] + 1 : e \in es})
             IN  SparseTensor(<<BatchSize, frames, width>>, es)

\* ------------------------------------------------------------- state
VARIABLES
  pc,                   \* position in parse_from_sequence_example
  err,                  \* the exception raised, "none" if none
  arg_list_size,        \* the caller's list_size argument
  list_size,            \* the local list_size
  example_feature_spec, \* the caller's example_feature_spec
  padding_values,       \* the non-trivial defaults collected
  decoded,              \* examples as returned by the decoder
  sizes,                \* the decoder's lengths per key and row
  examples,             \* the examples dict (updated at line 129)
  features,             \* the returned mapping
  file_lines,           \* the lines of the file at `path`
  num_features,         \* libsvm_generator's num_features
  gen_list_size,        \* libsvm_generator's list_size
  gpc,                  \* position in inner_generator
  gerr,                 \* the exception inner_generator raised, if any
  line_no,              \* number of lines the `for line in f` loop has read
  cur,                  \* the current query ID
  doc_list,             \* the buffer of documents
  pending,              \* (qid, doc) of the line held across the yield
  emitted,              \* the calls of _libsvm_generate that were yielded
  seed,                 \* libsvm_generator's seed
  rng,                  \* the state of the process-wide np.random source
  fresh,                \* no iteration since libsvm_generator was called
  run_no,               \* number of iterations run to their end
  first_out             \* what the first such iteration emitted

parseVars ==
  <<pc, err, arg_list_size, list_size, example_feature_spec, padding_values,
    decoded, sizes, examples, features>>

genVars ==
  <<file_lines, num_features, gen_list_size, gpc, gerr, line_no, cur,
    doc_list, pending, emitted, seed, rng, fresh, run_no, first_out>>

vars == <<parseVars, genVars>>

Empty == [k \in {} |-> NoneV]

NoPending == [qid |-> 0, doc |-> [k \in {} |-> 0]]

\* seed=None
NoSeed == [isNone |-> TRUE, n |-> 0]

\* The np.random state when nothing seeded it: any state.
UnknownRng == [known |-> FALSE, s |-> 0]

\* No iteration has run to its end.
NoHistory ==
  /\ fresh = TRUE
  /\ run_no = 0
  /\ first_out = <<>>

\* inner_generator has not been called.
GenIdle ==
  /\ file_lines = <<>>
  /\ num_features = 1
  /\ gen_list_size = 1
  /\ gpc = "idle"
  /\ gerr = "none"
  /\ line_no = 0
  /\ cur = -1
  /\ doc_list = <<>>
  /\ pending = NoPending
  /\ emitted = <<>>
  /\ seed = NoSeed
  /\ rng = UnknownRng
  /\ NoHistory

\* parse_from_sequence_example has not been called.
ParseIdle ==
  /\ pc = "idle"
  /\ err = "none"
  /\ arg_list_size = [isNone |-> TRUE, n |-> 0]
  /\ list_size = arg_list_size
  /\ example_feature_spec = Empty
  /\ padding_values = Empty
  /\ decoded = Empty
  /\ sizes = Empty
  /\ examples = Empty
  /\ features = Empty

InitParse ==
  /\ pc = "start"
  /\ err = "none"
  /\ arg_list_size \in ListSizes
  /\ list_size = arg_list_size
  /\ example_feature_spec \in ExampleFeatureSpecs
  /\ padding_values = Empty
  /\ decoded = Empty
  /\ sizes = Empty
  /\ examples = Empty
  /\ features = Empty
  /\ GenIdle

ScalarOf(s) == get_scalar_default_value(s.dtype, s.default_value)

FixedKeys(spec) == { k \in DOMAIN spec : spec[k].fixed }

\* Lines 100-109: the padding_values dict built from the Fixed specs.
CollectPaddingValues(spec) ==
  [k \in { x \in FixedKeys(spec) : IsNonTrivial(ScalarOf(spec[x]).val) }
     |-> ScalarOf(spec[k]).val]

\* Lines 92-112.
Resolve ==
  /\ pc = "start"
  /\ list_size' = IF ~list_size.isNone /\ list_size.n <= 0
                    THEN [isNone |-> TRUE, n |-> 0] ELSE list_size
  /\ IF \E k \in FixedKeys(example_feature_spec) :
          ~ScalarOf(example_feature_spec[k]).ok
       THEN /\ pc' = "error"
            /\ err' = "ValueError"
            /\ UNCHANGED padding_values
       ELSE /\ pc' = "resolved"
            /\ padding_values' = CollectPaddingValues(example_feature_spec)
            /\ UNCHANGED err
  /\ UNCHANGED <<arg_list_size, example_feature_spec, decoded, sizes,
                 examples, features>>
  /\ UNCHANGED genVars

\* Lines 113-116: tf.io.parse_sequence_example.
Decode ==
  /\ pc = "resolved"
  /\ \E sz \in [DOMAIN example_feature_spec ->
                  [0..(BatchSize - 1) -> 0..MaxFrames]] :
       /\ sizes' = sz
       /\ decoded' = [k \in DOMAIN example_feature_spec |->
                        ParsedTensor(example_feature_spec[k], sz[k])]
       /\ examples' = decoded'
  /\ pc' = "decoded"
  /\ UNCHANGED <<err, arg_list_size, list_size, example_feature_spec,
                 padding_values, features>>
  /\ UNCHANGED genVars

\* Lines 123-125: element i of reshape(tile(range(num_frames), [batch]), shape).
RankAt(shape, i) ==
  ((i[1] * shape[2] * shape[3]) + (i[2] * shape[3]) + i[3]) % shape[2]

\* tf.reshape accepts the tiled range only if the element counts agree.
ReshapeOk(shape) == shape[1] * shape[2] = shape[1] * shape[2] * shape[3]

\* `v * tf.ones_like(tensor)` is defined for a number and a numeric tensor.
OnesLikeOk(dtype, v) == dtype # "string" /\ v.kind = "num"

\* Lines 126-128: tf.where(rank < size, tensor, v * ones_like(tensor)).
ResetPadding(tensor, size, v) ==
  [tensor EXCEPT !.val =
     [i \in DOMAIN tensor.val |->
        IF RankAt(tensor.shape, i) < size[i[1]]
          THEN tensor.val[i] ELSE Num(v.n * 1)]]

\* The exception lines 120-128 raise for key k, "none" if they complete.
ReconcileError(k) ==
  IF ~ReshapeOk(examples[k].shape) THEN "InvalidArgumentError"
  ELSE IF ~OnesLikeOk(example_feature_spec[k].dtype, padding_values[k])
    THEN "TypeError"
  ELSE "none"

\* Lines 118-129.
Reconcile ==
  /\ pc = "decoded"
  /\ IF \E k \in DOMAIN padding_values : ReconcileError(k) # "none"
       THEN /\ pc' = "error"
            /\ \E k \in DOMAIN padding_values :
                 /\ ReconcileError(k) # "none"
                 /\ err' = ReconcileError(k)
            /\ UNCHANGED examples
       ELSE /\ pc' = "reconciled"
            /\ examples' =
                 [k \in DOMAIN examples |->
                    IF k \in DOMAIN padding_values
                      THEN ResetPadding(examples[k], sizes[k], padding_values[k])
                      ELSE examples[k]]
            /\ UNCHANGED err
  /\ UNCHANGED <<arg_list_size, list_size, example_feature_spec,
                 padding_values, decoded, sizes, features>>
  /\ UNCHANGED genVars

\* DynamicListSize with reduce_min for reduce_max.
DynamicListSize_min(ex) ==
  CHOOSE x \in { ex[k].shape[2] : k \in DOMAIN ex } :
    \A y \in { ex[k].shape[2] : k \in DOMAIN ex } : x <= y

\* Lines 132-136: the dynamic list size.
DynamicListSize(ex) == Max({ ex[k].shape[2] : k \in DOMAIN ex })

\* Line 148.
NewShape(t, ls) == <<t.shape[1], ls, t.shape[3]>>

\* tf.slice(t, [0] * ndims, size)
DenseSlice(t, size) ==
  DenseTensor(size, [i \in DenseIdx(size) |-> t.val[i]])

\* SparseSlice keeping the entries at the bound as well.
SparseSlice_inclusive(t, size) ==
  SparseTensor(
    [d \in 1..3 |-> Min2(size[d], t.shape[d])],
    { e \in t.entries : \A d \in 1..3 : e.idx[d] <= size[d] })

\* tf.sparse.slice(t, [0] * ndims, size)
SparseSlice(t, size) ==
  SparseTensor(
    [d \in 1..3 |-> Min2(size[d], t.shape[d])],
    { e \in t.entries : \A d \in 1..3 : e.idx[d] < size[d] })

\* Lines 150-156.
truncate_fn(t, new_shape) ==
  IF t.sparse THEN SparseSlice(t, new_shape) ELSE DenseSlice(t, new_shape)

\* tf.pad(t, [[0, 0], [0, extra], [0, 0]], constant_values=pad_val)
DensePad(t, extra, pad_val) ==
  LET padded == <<t.shape[1], t.shape[2] + extra, t.shape[3]>>
  IN  DenseTensor(padded,
                  [i \in DenseIdx(padded) |->
                     IF i[2] < t.shape[2] THEN t.val[i] ELSE pad_val])

\* PadValue ignoring the declared default.
PadValue_implicit(spec) == ImplicitDefault(spec.dtype)

\* Lines 170-172.
PadValue(spec) == get_scalar_default_value(spec.dtype, spec.default_value).val

\* Lines 158-173.
pad_fn(spec, t, ls, new_shape) ==
  IF t.sparse
    THEN SparseTensor(new_shape, t.entries)
    ELSE DensePad(t, ls - t.shape[2], PadValue(spec))

\* Lines 175-176: tf.cond(num_frames > list_size, truncate_fn, pad_fn).
NormalizeTensor(spec, t, ls) ==
  IF t.shape[2] > ls
    THEN truncate_fn(t, NewShape(t, ls))
    ELSE pad_fn(spec, t, ls, NewShape(t, ls))

\* Lines 131-185.
Normalize ==
  /\ pc = "reconciled"
  /\ list_size' = IF list_size.isNone
                    THEN [isNone |-> FALSE, n |-> DynamicListSize(examples)]
                    ELSE list_size
  /\ features' = [k \in DOMAIN examples |->
                    NormalizeTensor(example_feature_spec[k], examples[k],
                                    list_size'.n)]
  /\ pc' = "done"
  /\ UNCHANGED <<err, arg_list_size, example_feature_spec, padding_values,
                 decoded, sizes, examples>>
  /\ UNCHANGED genVars

NextParse == Resolve \/ Decode \/ Reconcile \/ Normalize

SpecParse == InitParse /\ [][NextParse]_vars

\* ------------------------------------------------------------ LibSVM
\* A line `<label> qid:<id> <key>:<value> ...` as its whitespace-separated
\* tokens, each already split at the colon.
Line(label, qid, kvs) == <<<<label>>, <<"qid", qid>>>> \o kvs

LineBodies ==
  { <<1, <<<<"1", 5>>>>>>,
    <<0, <<<<"1", 6>>, <<"2", 7>>>>>>,
    <<2, <<<<"3", 9>>>>>> }

QueryIds == {-1, 0, 1}

Lines == { Line(b[1], q, b[2]) : b \in LineBodies, q \in QueryIds }

SeqsUpTo(S, n) == UNION { [1..m -> S] : m \in 0..n }

\* dict.update with the (key, value) pairs of kvs, in order.
RECURSIVE DictUpdate(_, _)
DictUpdate(d, kvs) ==
  IF kvs = <<>> THEN d
  ELSE LET k == kvs[1][1]
           v == kvs[1][2]
       IN  DictUpdate([x \in DOMAIN d \cup {k} |-> IF x = k THEN v ELSE d[x]],
                      Tail(kvs))

\* Lines 422-440.
libsvm_parse_line(libsvm_line) ==
  LET tokens == libsvm_line
      qid == tokens[2][2]
      label == [k \in {LABEL_FEATURE} |-> tokens[1][1]]
  IN  [qid |-> qid, doc |-> DictUpdate(label, SubSeq(tokens, 3, Len(tokens)))]

\* str(fid + 1)
Str == <<"1", "2", "3", "4">>

\* Lines 457-459: the keys of the features dict.
DeclaredIds(nf) == { Str[fid + 1] : fid \in 0..(nf - 1) }

ShuffleOrders(n) ==
  { f \in [1..n -> 1..n] : \A i, j \in 1..n : f[i] = f[j] => i = j }

\* Lines 465-466.
Trim(docs, ls) == IF Len(docs) > ls THEN SubSeq(docs, 1, ls) ELSE docs

\* libsvm_generate writing the labels in the order before the shuffle.
libsvm_generate_staleLabels(nf, ls, docs, perm) ==
  LET shuffled == [i \in 1..Len(docs) |-> docs[perm[i]]]
      kept == Trim(shuffled, ls)
      ok == \A i \in 1..Len(kept) :
              DOMAIN kept[i] \ {LABEL_FEATURE} \subseteq DeclaredIds(nf)
      labels == [i \in 1..ls |->
                   IF i <= Len(kept) THEN docs[i][LABEL_FEATURE]
                                     ELSE PADDING_LABEL]
      feats == [fid \in DeclaredIds(nf) |->
                  [i \in 1..ls |->
                     <<IF i <= Len(kept) /\ fid \in DOMAIN kept[i]
                         THEN kept[i][fid] ELSE 0>>]]
  IN  [ok |-> ok, features |-> feats, labels |-> labels]

\* Lines 443-476, with the order np.random.shuffle produced given as perm
\* (position i of the shuffled list holds docs[perm[i]]).
libsvm_generate(nf, ls, docs, perm) ==
  LET shuffled == [i \in 1..Len(docs) |-> docs[perm[i]]]
      kept == Trim(shuffled, ls)
      \* features.get(feature_id) is None for an id that was not declared.
      ok == \A i \in 1..Len(kept) :
              DOMAIN kept[i] \ {LABEL_FEATURE} \subseteq DeclaredIds(nf)
      labels == [i \in 1..ls |->
                   IF i <= Len(kept) /\ LABEL_FEATURE \in DOMAIN kept[i]
                     THEN kept[i][LABEL_FEATURE] ELSE PADDING_LABEL]
      feats == [fid \in DeclaredIds(nf) |->
                  [i \in 1..ls |->
                     <<IF i <= Len(kept) /\ fid \in DOMAIN kept[i]
                         THEN kept[i][fid] ELSE 0>>]]
  IN  [ok |-> ok, features |-> feats, labels |-> labels]

\* One step of the pseudo-random generator, over the states 0..7.
RngNext(s) == ((5 * s) + 3) % 8

\* np.random.seed(seed)
SeedState(n) == [known |-> TRUE, s |-> n % 8]

\* Lines 491-492 without the call of np.random.seed.
Reseed_skipped(r, sd) == r

\* Lines 491-492: `if seed is not None: np.random.seed(seed)`.
Reseed(r, sd) == IF sd.isNone THEN r ELSE SeedState(sd.n)

\* np.random.shuffle on a list of length n, as the order x of its indices:
\* for i = n-1 .. 1, draw j in [0, i] and swap x[i], x[j] (here 1-based).
RECURSIVE FisherYates(_, _, _)
FisherYates(x, i, s) ==
  IF i < 2 THEN [perm |-> x, s |-> s]
  ELSE LET j == (s % i) + 1
       IN  FisherYates([x EXCEPT ![i] = x[j], ![j] = x[i]], i - 1, RngNext(s))

\* The orders np.random.shuffle can produce from state r, each with the
\* state it leaves behind.
ShuffleOutcomes(r, n) ==
  IF r.known
    THEN LET fy == FisherYates([i \in 1..n |-> i], n, r.s)
         IN  { [perm |-> fy.perm, rng |-> [known |-> TRUE, s |-> fy.s]] }
    ELSE { [perm |-> p, rng |-> r] : p \in ShuffleOrders(n) }

InitGen ==
  /\ ParseIdle
  /\ file_lines \in SeqsUpTo(Lines, MaxLines)
  /\ num_features \in {1, 2}
  /\ gen_list_size \in 1..MaxListSize
  /\ gpc = "loop"
  /\ gerr = "none"
  /\ line_no = 0
  /\ cur = -1
  /\ doc_list = <<>>
  /\ pending = NoPending
  /\ emitted = <<>>
  /\ seed = NoSeed
  /\ rng = Reseed(UnknownRng, seed)
  /\ NoHistory

\* The yield of _libsvm_generate(num_features, list_size, doc_list):
\* either a value is handed to the consumer or the call raises.
Yield(next_pc) ==
  \E sh \in ShuffleOutcomes(rng, Len(doc_list)) :
    LET perm == sh.perm
        r == libsvm_generate(num_features, gen_list_size, doc_list, perm)
    IN  \* np.random.shuffle reorders the caller's list in place.
        /\ rng' = sh.rng
        /\ doc_list' = [i \in 1..Len(doc_list) |-> doc_list[perm[i]]]
        /\ IF r.ok
             THEN /\ emitted' = Append(emitted,
                                  [docs |-> doc_list, features |-> r.features,
                                   labels |-> r.labels])
                  /\ gpc' = next_pc
                  /\ UNCHANGED gerr
             ELSE /\ gpc' = "error"
                  /\ gerr' = "TypeError"
                  /\ UNCHANGED emitted

\* Lines 516-526: one iteration of `for line in f`, up to `continue` or
\* to the yield.
ReadLine ==
  /\ gpc = "loop"
  /\ line_no < Len(file_lines)
  /\ LET parsed == libsvm_parse_line(file_lines[line_no + 1])
         cur1 == IF cur < 0 THEN parsed.qid ELSE cur
     IN  /\ line_no' = line_no + 1
         /\ cur' = cur1
         /\ IF parsed.qid = cur1
              THEN /\ doc_list' = Append(doc_list, parsed.doc)
                   /\ UNCHANGED <<gpc, gerr, pending, emitted, rng>>
              ELSE /\ pending' = parsed
                   /\ Yield("yielded")
  /\ UNCHANGED <<file_lines, num_features, gen_list_size>>
  /\ UNCHANGED <<seed, fresh, run_no, first_out>>
  /\ UNCHANGED parseVars

\* Lines 528-530: the consumer asks for the next value.
Resume ==
  /\ gpc = "yielded"
  /\ cur' = pending.qid
  /\ doc_list' = <<pending.doc>>
  /\ pending' = NoPending
  /\ gpc' = "loop"
  /\ UNCHANGED <<file_lines, num_features, gen_list_size, gerr, line_no,
                 emitted>>
  /\ UNCHANGED <<seed, rng, fresh, run_no, first_out>>
  /\ UNCHANGED parseVars

\* Line 532: the file is exhausted.
FinalYield ==
  /\ gpc = "loop"
  /\ line_no = Len(file_lines)
  /\ Yield("final")
  /\ UNCHANGED <<file_lines, num_features, gen_list_size, line_no, cur,
                 pending>>
  /\ UNCHANGED <<seed, fresh, run_no, first_out>>
  /\ UNCHANGED parseVars

\* The consumer asks for a value after the last one: StopIteration.
Finish ==
  /\ gpc = "final"
  /\ gpc' = "done"
  /\ run_no' = run_no + 1
  /\ first_out' = IF run_no = 0 THEN emitted ELSE first_out
  /\ UNCHANGED <<file_lines, num_features, gen_list_size, gerr, line_no, cur,
                 doc_list, pending, emitted>>
  /\ UNCHANGED <<seed, rng, fresh>>
  /\ UNCHANGED parseVars

NextGen == ReadLine \/ Resume \/ FinalYield \/ Finish

SpecGen == InitGen /\ [][NextGen]_vars

\* The seeds and the lines of the seeded runs.
Seeds == { [isNone |-> FALSE, n |-> x] : x \in {0, 1} }

SeededLines ==
  { Line(1, q, <<<<"1", 5>>>>) : q \in {0, 1} }
    \cup { Line(0, q, <<<<"1", 6>>, <<"2", 7>>>>) : q \in {0, 1} }

\* libsvm_generator(path, num_features, list_size, seed) has returned and
\* the function it returned has been called.
InitSeeded ==
  /\ ParseIdle
  /\ file_lines \in SeqsUpTo(SeededLines, MaxLines)
  /\ num_features = 2
  /\ gen_list_size \in 1..MaxListSize
  /\ gpc = "loop"
  /\ gerr = "none"
  /\ line_no = 0
  /\ cur = -1
  /\ doc_list = <<>>
  /\ pending = NoPending
  /\ emitted = <<>>
  /\ seed \in Seeds
  /\ rng = Reseed(UnknownRng, seed)
  /\ NoHistory

\* Lines 510-514: inner_generator starts from the top.
BeginIteration ==
  /\ gpc' = "loop"
  /\ gerr' = "none"
  /\ line_no' = 0
  /\ cur' = -1
  /\ doc_list' = <<>>
  /\ pending' = NoPending
  /\ emitted' = <<>>

\* The function libsvm_generator returned is called again (a new epoch):
\* np.random keeps the state the previous iteration left.
Restart ==
  /\ gpc = "done"
  /\ run_no < MaxIterations
  /\ BeginIteration
  /\ fresh' = FALSE
  /\ UNCHANGED <<file_lines, num_features, gen_list_size, seed, rng, run_no,
                 first_out>>
  /\ UNCHANGED parseVars

\* libsvm_generator is called again with the same arguments (lines 491-492)
\* and the function it returns is called.
Recreate ==
  /\ gpc = "done"
  /\ run_no < MaxIterations
  /\ BeginIteration
  /\ rng' = Reseed(rng, seed)
  /\ fresh' = TRUE
  /\ UNCHANGED <<file_lines, num_features, gen_list_size, seed, run_no,
                 first_out>>
  /\ UNCHANGED parseVars

NextSeeded ==
  ReadLine \/ Resume \/ FinalYield \/ Finish \/ Restart \/ Recreate

SpecSeeded == InitSeeded /\ [][NextSeeded]_vars

\* ============================================================ properties

\* The target length the caller asked for: list_size when it is a positive
\* integer, otherwise the largest 2nd dimension the decoder returned.
TargetLength ==
  IF ~arg_list_size.isNone /\ arg_list_size.n > 0
    THEN arg_list_size.n
    ELSE Max({ decoded[k].shape[2] : k \in DOMAIN decoded })

\* C1: in the returned mapping every example feature, dense or sparse, has
\* the target length as its 2nd dimension: the dense values cover exactly
\* the frames [0, target) and no sparse entry lies at or beyond it.
C1_UniformListSize ==
  pc = "done" =>
    \A k \in DOMAIN example_feature_spec :
      /\ k \in DOMAIN features
      /\ features[k].shape[2] = TargetLength
      /\ ~features[k].sparse =>
           DOMAIN features[k].val =
             DenseIdx(<<BatchSize, TargetLength, example_feature_spec[k].width>>)
      /\ features[k].sparse =>
           \A e \in features[k].entries : e.idx[2] < TargetLength

\* C1 witness: a dynamic list size taken from two features the decoder
\* returned with different numbers of frames, one dense and one sparse.
C1_Witness ==
  /\ pc = "done"
  /\ arg_list_size.isNone
  /\ DOMAIN features = {"a", "b"}
  /\ decoded["a"].shape[2] < decoded["b"].shape[2]
  /\ ~features["a"].sparse
  /\ features["b"].sparse
  /\ features["b"].entries # {}

\* The fill the claim C2 states: the registered default, else zero / "".
RegistryFill(k) ==
  IF k \in DOMAIN padding_values
    THEN padding_values[k]
    ELSE ImplicitDefault(example_feature_spec[k].dtype)

\* The fill of the amended C2: as RegistryFill, except that a string field
\* (never registered for a text default) takes its declared text default.
DeclaredFill(k) ==
  IF k \in DOMAIN padding_values
    THEN padding_values[k]
  ELSE IF example_feature_spec[k].dtype = "string"
          /\ example_feature_spec[k].default_value.kind = "text"
    THEN example_feature_spec[k].default_value
  ELSE ImplicitDefault(example_feature_spec[k].dtype)

\* The dense features that went through the pad branch.
PaddedDense ==
  { k \in DOMAIN features :
      ~examples[k].sparse /\ examples[k].shape[2] <= list_size.n }

PaddedWith(fill) ==
  pc = "done" =>
    \A k \in PaddedDense :
      \A i \in DOMAIN features[k].val :
        features[k].val[i] =
          IF i[2] < examples[k].shape[2] THEN examples[k].val[i] ELSE fill[k]

Truncated ==
  { k \in DOMAIN features : examples[k].shape[2] > list_size.n }

C4_ReconcileAnyWidth ==
  /\ pc = "error" => err # "InvalidArgumentError"
  /\ pc \in {"reconciled", "done"} =>
       \A k \in DOMAIN padding_values :
         /\ examples[k].shape = decoded[k].shape
         /\ \A i \in DOMAIN decoded[k].val :
              examples[k].val[i] =
                IF i[2] < sizes[k][i[1]]
                  THEN decoded[k].val[i] ELSE padding_values[k]

\* A declared default that is neither absent, a scalar nor a
\* single-element sequence.
NonScalarDefault(dv) == dv.kind = "list" /\ Len(dv.items) # 1

\* C8: with a Fixed spec, of either element type, whose default is not
\* scalar, the call fails with the configuration error before decoding.
C8_NonScalarDefaultRejected ==
  (/\ pc \notin {"idle", "start"}
   /\ \E k \in FixedKeys(example_feature_spec) :
        NonScalarDefault(example_feature_spec[k].default_value))
    => (pc = "error" /\ err = "ValueError" /\ decoded = Empty)

\* The effective scalar default as section 4.1 resolves it, for a default
\* that is absent, a scalar or a single-element sequence.
EffectiveDefault(s) ==
  IF s.default_value.kind = "none" THEN ImplicitDefault(s.dtype)
  ELSE IF s.default_value.kind = "list" THEN s.default_value.items[1]
  ELSE s.default_value

Trivial(v) == v \in {Num(0), Text("")}

ParsedLines ==
  [i \in 1..Len(file_lines) |-> libsvm_parse_line(file_lines[i])]

\* The document lists of the maximal runs of consecutive equal query ids.
RECURSIVE RunsOf(_)
RunsOf(ps) ==
  IF ps = <<>> THEN <<>>
  ELSE LET n == Max({ m \in 1..Len(ps) :
                        \A j \in 1..m : ps[j].qid = ps[1].qid })
       IN  <<[j \in 1..n |-> ps[j].doc]>> \o RunsOf(SubSeq(ps, n + 1, Len(ps)))

\* C5: when the generator has run to its end over a non-empty file, the
\* aggregates it emitted are, in order, one per maximal run of consecutive
\* lines with the same query id, each built from the records of its run.
C5_OneAggregatePerRun ==
  (gpc = "done" /\ file_lines # <<>>) =>
    [i \in 1..Len(emitted) |-> emitted[i].docs] = RunsOf(ParsedLines)

\* Row i of aggregate e holds record d: its label, and per declared
\* feature id its value, 0 where the record has none.
RowHolds(e, i, d) ==
  /\ e.labels[i] = d[LABEL_FEATURE]
  /\ \A fid \in DeclaredIds(num_features) :
       e.features[fid][i] = <<IF fid \in DOMAIN d THEN d[fid] ELSE 0>>

\* Row i of aggregate e is padding.
RowIsPadding(e, i) ==
  /\ e.labels[i] = PADDING_LABEL
  /\ \A fid \in DeclaredIds(num_features) : e.features[fid][i] = <<0>>

\* C6: every emitted aggregate has a label vector of length L and one
\* [L, 1] matrix per declared feature id; its first min(n, L) rows hold
\* distinct records of the list it was built from, label and features of a
\* row from the same record, and every later row holds -1 and 0.
C6_AggregateLayout ==
  \A x \in 1..Len(emitted) :
    LET e == emitted[x]
        n == Len(e.docs)
        m == Min2(n, gen_list_size)
    IN  /\ DOMAIN e.labels = 1..gen_list_size
        /\ DOMAIN e.features = DeclaredIds(num_features)
        /\ \A fid \in DOMAIN e.features :
             DOMAIN e.features[fid] = 1..gen_list_size
        /\ \E sigma \in [1..m -> 1..n] :
             /\ \A i, j \in 1..m : sigma[i] = sigma[j] => i = j
             /\ \A i \in 1..m : RowHolds(e, i, e.docs[sigma[i]])
        /\ \A i \in (m + 1)..gen_list_size : RowIsPadding(e, i)

\* C6 witness: an aggregate was built from more records than list_size,
\* and its first row holds another record than the first of the list.
C6_Witness ==
  \E x \in 1..Len(emitted) :
    /\ Len(emitted[x].docs) > gen_list_size
    /\ ~RowHolds(emitted[x], 1, emitted[x].docs[1])

\* C7: no finalization raises: a record with a feature id that was not
\* declared is ignored for that id and the aggregate is emitted.
C7_UndeclaredIdIgnored == gpc # "error" /\ gerr # "TypeError"

\* C10: every emitted aggregate was built from at least one record.
C10_NeverEmitsEmpty ==
  \A x \in 1..Len(emitted) : emitted[x].docs # <<>>

\* C11 as stated: with a seed, every iteration run to its end, a restart
\* of the same returned function included, emits what the first one did.
C11_EveryIterationReproducible ==
  gpc = "done" => emitted = first_out

\* C11 amended: with a seed, every iteration that is the first one after a
\* call of libsvm_generator emits what the first such iteration did.
C11_FirstIterationReproducible ==
  (gpc = "done" /\ fresh) => emitted = first_out

\* C11 witness: a second iteration, begun right after libsvm_generator was
\* called again, has ended after a shuffle that moved the first record.
C11_Witness ==
  /\ gpc = "done"
  /\ fresh
  /\ run_no >= 2
  /\ \E x \in 1..Len(emitted) :
       /\ Len(emitted[x].docs) >= 2
       /\ emitted[x].docs[1] # emitted[x].docs[2]
       /\ Len(emitted[x].docs) <= gen_list_size
       /\ ~RowHolds(emitted[x], 1, emitted[x].docs[1])

====
